---- MODULE Spec2Model ----
(***************************************************************************)
(* SafeSend risk check of XWallet1.4.                                      *)
(*                                                                         *)
(* Two deployed variants answer GET /check:                                *)
(*   "worker"   - src/Safesend-worker/Worker.js  (addFinding accumulator)  *)
(*   "riskEval" - src/unnamed/part_000           (runRiskEval)             *)
(* and the wallet (src/unnamed/part_000, second half) shows the result in  *)
(* its risk modal.                                                         *)
(*                                                                         *)
(* Strings the code inspects character by character (addresses, bytecode,  *)
(* hex quantities, CSV configuration) are sequences of one-character       *)
(* strings.  Time is counted in ticks of MsPerTick milliseconds; ETH       *)
(* amounts are counted in units of 1/UnitsPerEth ETH.                      *)
(***************************************************************************)
EXTENDS Integers, Sequences, FiniteSets, TLC

(* ------------------------------ bounds --------------------------------- *)

\* Longest transfer list the upstream provider returns in the model.
MaxTransfers == 10

\* Length of the middle-sized transfer list.
MidTransfers == 5

\* Evaluations of one request (the first one and its repetitions).
MaxRuns == 2

(* ------------------------- characters and strings ---------------------- *)

\* A function on 1..n as the sequence (tuple) it is.
AsSeq(f) == f \o <<>>

Rep(c, n) == AsSeq([i \in 1..n |-> c])

UpperChars == <<"A","B","C","D","E","F","G","H","I","J","K","L","M",
                "N","O","P","Q","R","S","T","U","V","W","X","Y","Z">>

LowerChars == <<"a","b","c","d","e","f","g","h","i","j","k","l","m",
                "n","o","p","q","r","s","t","u","v","w","x","y","z">>

LowerOf ==
    [c \in {UpperChars[i] : i \in 1..26} |->
        LowerChars[CHOOSE i \in 1..26 : UpperChars[i] = c]]

LowerChar(c) == IF c \in DOMAIN LowerOf THEN LowerOf[c] ELSE c

toLowerCase(s) == AsSeq([i \in 1..Len(s) |-> LowerChar(s[i])])

WhiteSpace == {" "}

RECURSIVE trimStart(_)
trimStart(s) ==
    IF Len(s) > 0 /\ s[1] \in WhiteSpace THEN trimStart(Tail(s)) ELSE s

RECURSIVE trimEnd(_)
trimEnd(s) ==
    IF Len(s) > 0 /\ s[Len(s)] \in WhiteSpace
    THEN trimEnd(SubSeq(s, 1, Len(s) - 1))
    ELSE s

trim(s) == trimEnd(trimStart(s))

\* String.prototype.split(",")
RECURSIVE splitComma(_)
splitComma(s) ==
    IF \E i \in 1..Len(s) : s[i] = ","
    THEN LET i == CHOOSE k \in 1..Len(s) :
                      s[k] = "," /\ \A m \in 1..(k - 1) : s[m] # ","
         IN  <<SubSeq(s, 1, i - 1)>> \o splitComma(SubSeq(s, i + 1, Len(s)))
    ELSE <<s>>

\* s contains pat as a substring (RegExp.test of a literal pattern)
Contains(s, pat) ==
    \E i \in 1..(Len(s) - Len(pat) + 1) : SubSeq(s, i, i + Len(pat) - 1) = pat

Digits == {"0","1","2","3","4","5","6","7","8","9"}

HexLowerChars == Digits \cup {"a","b","c","d","e","f"}

HexChars == HexLowerChars \cup {"A","B","C","D","E","F"}

ADDR_HEX_LEN == 40

\* The pattern cut down to its prefix, /^0x/
IsAddressPrefixOnly(s) ==
    /\ Len(s) >= 2
    /\ s[1] = "0"
    /\ s[2] = "x"

\* /^0x[a-fA-F0-9]{40}$/
IsAddress(s) ==
    /\ Len(s) = ADDR_HEX_LEN + 2
    /\ s[1] = "0"
    /\ s[2] = "x"
    /\ \A i \in 3..(ADDR_HEX_LEN + 2) : s[i] \in HexChars

\* /^0x[a-f0-9]{40}$/
IsLowerAddress(s) ==
    /\ Len(s) = ADDR_HEX_LEN + 2
    /\ s[1] = "0"
    /\ s[2] = "x"
    /\ \A i \in 3..(ADDR_HEX_LEN + 2) : s[i] \in HexLowerChars

HexDigitValue(c) ==
    CASE c = "0" -> 0 [] c = "1" -> 1 [] c = "2" -> 2 [] c = "3" -> 3
      [] c = "4" -> 4 [] c = "5" -> 5 [] c = "6" -> 6 [] c = "7" -> 7
      [] c = "8" -> 8 [] c = "9" -> 9
      [] c \in {"a","A"} -> 10 [] c \in {"b","B"} -> 11
      [] c \in {"c","C"} -> 12 [] c \in {"d","D"} -> 13
      [] c \in {"e","E"} -> 14 [] c \in {"f","F"} -> 15

\* Value of the longest prefix of hex digits of s, given the value so far.
RECURSIVE HexPrefixValue(_, _)
HexPrefixValue(s, acc) ==
    IF Len(s) > 0 /\ s[1] \in HexChars
    THEN HexPrefixValue(Tail(s), 16 * acc + HexDigitValue(s[1]))
    ELSE acc

\* parseInt(h, 16) || 0 : an optional 0x/0X prefix is skipped; no digit at
\* all gives NaN, which || turns into 0.
hexToInt(h) ==
    LET body == IF Len(h) >= 2 /\ h[1] = "0" /\ h[2] \in {"x", "X"}
                THEN SubSeq(h, 3, Len(h))
                ELSE h
    IN  HexPrefixValue(body, 0)

(* ------------------------------ numbers -------------------------------- *)

\* One tick of model time, in milliseconds.
MsPerTick == 60 * 1000

\* 86400000 ms
DAY_MS == 86400000 \div MsPerTick

\* Amounts: number of model units in one ETH (a unit is 0.0000001 ETH).
UnitsPerEth == 10 * 1000 * 1000

\* A JavaScript number that may be NaN.
Num(v) == [nan |-> FALSE, v |-> v]

NaN == [nan |-> TRUE, v |-> 0]

\* Truthiness of a number: 0 and NaN are falsy.
Truthy(x) == ~x.nan /\ x.v # 0

SeqRange(s) == {s[i] : i \in 1..Len(s)}

\* Math.max(...xs) and Math.min(...xs) of a non-empty list: NaN if any is NaN.
MathMax(xs) ==
    IF \E i \in 1..Len(xs) : xs[i].nan
    THEN NaN
    ELSE Num(CHOOSE m \in {xs[i].v : i \in 1..Len(xs)} :
                 \A i \in 1..Len(xs) : xs[i].v <= m)

MathMin(xs) ==
    IF \E i \in 1..Len(xs) : xs[i].nan
    THEN NaN
    ELSE Num(CHOOSE m \in {xs[i].v : i \in 1..Len(xs)} :
                 \A i \in 1..Len(xs) : xs[i].v >= m)

\* Date.parse of a blockTimestamp string: an ISO date gives its epoch time,
\* anything else NaN.
DateParse(ts) == IF ts.kind = "iso" THEN Num(ts.ms) ELSE NaN

\* t?.metadata?.blockTimestamp ? Date.parse(...) : 0
recentMs(t) ==
    IF t.metadata.blockTimestamp.kind # "absent"
    THEN DateParse(t.metadata.blockTimestamp)
    ELSE Num(0)

\* x ? (now - x) / 86400000 : null, kept in ticks; null stands for itself.
DaysSince(x, now) ==
    IF Truthy(x) THEN [null |-> FALSE, ms |-> now - x.v]
                 ELSE [null |-> TRUE, ms |-> 0]

\* d < c and d > c on a number of days, with JavaScript's coercion of null
\* to 0 in a relational comparison.
DaysLt(d, c) == IF d.null THEN 0 < c ELSE d.ms < c * DAY_MS

DaysGt(d, c) == IF d.null THEN 0 > c ELSE d.ms > c * DAY_MS

(* ------------------------------ findings ------------------------------- *)

\* The text of a finding: its fixed words and what is interpolated in them.
Detail(text) == [text |-> text, n |-> 0, s |-> <<>>]

DetailN(text, n) == [text |-> text, n |-> n, s |-> <<>>]

DetailS(text, s) == [text |-> text, n |-> 0, s |-> s]

\* addFinding without its score += delta
addFindingNoDelta(acc, label, detail, level, delta) ==
    [findings |-> Append(acc.findings,
                         [label |-> label, detail |-> detail, level |-> level]),
     score |-> acc.score]

\* Worker.js: findings.push({label, detail, level}); score += delta
addFinding(acc, label, detail, level, delta) ==
    [findings |-> Append(acc.findings,
                         [label |-> label, detail |-> detail, level |-> level]),
     score |-> acc.score + delta]

\* if (cond) addFinding(...)
addFindingIf(cond, acc, label, detail, level, delta) ==
    IF cond THEN addFinding(acc, label, detail, level, delta) ELSE acc

\* part_000: factor(severity, label, reason)
factor(severity, label, reason) ==
    [severity |-> severity, label |-> label, reason |-> reason]

\* if (cond) factors.push(f)
pushIf(cond, factors, f) == IF cond THEN Append(factors, f) ELSE factors

Labels(fs) == {fs[i].label : i \in 1..Len(fs)}

(* ------------------------------ transfers ------------------------------ *)

\* Addresses 0xcc...c of the model: the prefix and forty times one character.
Addr(c) == <<"0", "x">> \o Rep(c, ADDR_HEX_LEN)

\* Counterparties of the transfers the provider returns.
PeerChars == <<"C","1","2","3","4","5","6","7","8","9","0","A","B","D","E","F">>

Peers == [i \in 1..Len(PeerChars) |-> Addr(PeerChars[i])]

Peer(i) == Peers[((i - 1) % Len(PeerChars)) + 1]

\* The transfers of an alchemy_getAssetTransfers result.  A result is told
\* by how many transfers it has (n), their blockTimestamp (ts), their value
\* and how many distinct counterparties they have (peers); dir says whether
\* the checked address is the sender ("out") or the recipient ("in").
Transfers(res, address, dir) ==
  AsSeq(
    [i \in 1..res.n |->
        [hash     |-> i,
         from     |-> IF dir = "out" THEN toLowerCase(address)
                      ELSE Peer(((i - 1) % res.peers) + 1),
         to       |-> IF dir = "out" THEN Peer(((i - 1) % res.peers) + 1)
                      ELSE toLowerCase(address),
         value    |-> res.value,
         metadata |-> [blockTimestamp |-> res.ts]]])

\* part_000 normalizeTransfer(t)
normalizeTransfer(t) ==
    LET ts == IF t.metadata.blockTimestamp.kind # "absent"
              THEN DateParse(t.metadata.blockTimestamp)
              ELSE Num(0)
        valueEth == IF t.value.kind # "null"
                    THEN [null |-> FALSE, units |-> t.value.units]
                    ELSE [null |-> TRUE, units |-> 0]
    IN  [hash      |-> t.hash,
         from      |-> toLowerCase(t.from),
         to        |-> toLowerCase(t.to),
         valueEth  |-> valueEth,
         timestamp |-> IF ~ts.nan THEN ts.v ELSE 0]

MapNormalize(ts) == AsSeq([i \in 1..Len(ts) |-> normalizeTransfer(ts[i])])

\* part_000 countWithin(list, windowMs), with nowMs() = now
countWithin(list, windowMs, now) ==
    LET cutoff == now - windowMs
    IN  Cardinality({i \in 1..Len(list) : list[i].timestamp >= cutoff})

\* toFixed(6) of an amount, as a number of millionths of an ETH
toFixed6(units) == (units + (UnitsPerEth \div 2000000)) \div (UnitsPerEth \div 1000000)

\* part_000 repeatedAmounts(list): the Map keeps keys in insertion order and
\* the first key with the largest count wins.
repeatedAmounts(list) ==
    LET idx == {i \in 1..Len(list) : ~list[i].valueEth.null}
        key(i) == toFixed6(list[i].valueEth.units)
        count(i) == Cardinality({j \in idx : key(j) = key(i)})
        first(i) == \A j \in idx : key(j) = key(i) => i <= j
        maxRepeats == IF idx = {} THEN 0
                      ELSE CHOOSE m \in {count(i) : i \in idx} :
                               \A i \in idx : count(i) <= m
        winner == CHOOSE i \in idx :
                      /\ first(i)
                      /\ count(i) = maxRepeats
                      /\ \A j \in idx : (first(j) /\ count(j) = maxRepeats) => i <= j
    IN  [maxRepeats |-> maxRepeats,
         amountStr  |-> IF idx = {} THEN 0 ELSE key(winner)]

\* part_000 freshInThenOut(inbound, outbound, windowMs)
freshInThenOut(inbound, outbound, windowMs) ==
    IF Len(inbound) = 0 \/ Len(outbound) = 0 THEN FALSE
    ELSE LET latestIn == inbound[1]
             hits == {i \in 1..Len(outbound) :
                         outbound[i].timestamp >= latestIn.timestamp}
         IN  IF hits = {} THEN FALSE
             ELSE LET firstOutAfter ==
                          outbound[CHOOSE i \in hits : \A j \in hits : i <= j]
                  IN  (firstOutAfter.timestamp - latestIn.timestamp) <= windowMs

\* Worker.js parseEth(v): a number is itself, null is 0
parseEth(v) == IF v.kind = "num" THEN v.units ELSE 0

\* Array.prototype.sort((a, b) => a - b)
RECURSIVE SortAsc(_)
SortAsc(xs) ==
    IF Len(xs) <= 1 THEN xs
    ELSE LET i == CHOOSE k \in 1..Len(xs) :
                      /\ \A m \in 1..Len(xs) : xs[k] <= xs[m]
                      /\ \A m \in 1..(k - 1) : xs[m] # xs[k]
             rest == AsSeq([m \in 1..(Len(xs) - 1) |->
                               IF m < i THEN xs[m] ELSE xs[m + 1]])
         IN  <<xs[i]>> \o SortAsc(rest)

\* Twice the median of a sorted list, as Worker.js computes the median.
TwiceMedian(sorted) ==
    LET mid == Len(sorted) \div 2
    IN  IF Len(sorted) % 2 = 1
        THEN 2 * sorted[mid + 1]
        ELSE sorted[mid] + sorted[mid + 1]

(* ------------------------ Worker.js: the evaluation --------------------- *)

\* (env.X || "").toLowerCase().split(",").map(s => s.trim()).filter(Boolean)
csvLowerList(str) ==
    LET parts == splitComma(toLowerCase(str))
    IN  {trim(parts[i]) : i \in 1..Len(parts)} \ {<<>>}

\* Number(env.DUST_THRESHOLD_ETH || "0.00002")
DUST_THRESHOLD_ETH(env) ==
    IF env.dustThreshold.set THEN env.dustThreshold.units
    ELSE (2 * UnitsPerEth) \div 100000

\* JSON.parse(env.BAD_ENS_ADDRS || "{}") inside try/catch: a map from
\* addresses to names, empty when the text is no JSON.
BAD_ENS_ADDRS(env) == IF env.badEnsAddrs.valid THEN env.badEnsAddrs.map ELSE {}

EnsLinkOf(env, a) == {p \in BAD_ENS_ADDRS(env) : p[1] = a /\ p[2] # <<>>}

\* Lines 49-65: the accumulator and the blocklist / negative reputation rules.
WorkerBlocklists(addr, env) ==
    LET a0 == [findings |-> <<>>, score |-> 0]
        a1 == addFindingIf(toLowerCase(addr) \in csvLowerList(env.badlist), a0,
                  "Blocklisted", Detail("Address appears on internal blocklist."),
                  "high", 90)
        a2 == addFindingIf(EnsLinkOf(env, toLowerCase(addr)) # {}, a1,
                  "Negative ENS link",
                  DetailS("Associated with ",
                          (CHOOSE p \in EnsLinkOf(env, toLowerCase(addr)) : TRUE)[2]),
                  "high", 25)
    IN  a2

\* Lines 67-84: what the eth_getCode outcome adds.
WorkerBytecode(acc, outcome) ==
    IF outcome.ok
    THEN LET bytecode == outcome.value
             isContract == Len(bytecode) > 0 /\ bytecode # <<"0", "x">>
             a1 == addFinding(acc, "Contract",
                       Detail("Recipient is a contract address."), "medium", 10)
             a2 == addFindingIf(
                       Contains(toLowerCase(SubSeq(bytecode, 3, Len(bytecode))),
                                <<"3","6","3","d","3","d">>),
                       a1, "Proxy pattern",
                       Detail("EIP-1167 minimal proxy detected."), "medium", 6)
             a3 == addFindingIf(Len(bytecode) < 200, a2, "Tiny bytecode",
                       Detail("Contract runtime is unusually short."), "medium", 6)
         IN  IF isContract THEN a3
             ELSE addFinding(acc, "EOA",
                      Detail("Recipient is an externally owned address."), "low", 0)
    ELSE addFinding(acc, "Unknown type",
             Detail("Could not verify contract/EOA."), "low", 0)

\* Lines 113-118: the age tier of the first transfer.
WorkerAgeTier(acc, daysSinceFirst) ==
    IF DaysLt(daysSinceFirst, 1)
    THEN addFinding(acc, "New address", Detail("First seen < 24h."), "high", 28)
    ELSE IF DaysLt(daysSinceFirst, 7)
    THEN addFinding(acc, "Newish address", Detail("First seen < 7d."), "medium", 18)
    ELSE IF DaysLt(daysSinceFirst, 30)
    THEN addFinding(acc, "Recent address", Detail("First seen < 30d."), "low", 8)
    ELSE acc

\* Lines 100-161: the transfer / activity rules.
WorkerActivity(acc, outs, ins, now, env) ==
    LET all == outs \o ins
        stamps == AsSeq([i \in 1..Len(all) |-> recentMs(all[i])])
        latestTs == IF Len(all) > 0 THEN MathMax(stamps) ELSE Num(0)
        firstTs == IF Len(all) > 0 THEN MathMin(stamps) ELSE Num(0)
        daysSinceFirst == DaysSince(firstTs, now)
        daysSinceLatest == DaysSince(latestTs, now)
        uniqueRecipients == {toLowerCase(outs[i].to) : i \in 1..Len(outs)} \ {<<>>}
        uniqueSenders == {toLowerCase(ins[i].from) : i \in 1..Len(ins)} \ {<<>>}
        incomingValues ==
            SortAsc(AsSeq([i \in 1..Len(ins) |-> parseEth(ins[i].value)]))
        b1 == WorkerAgeTier(acc, daysSinceFirst)
        b2 == addFindingIf(Len(all) < 5, b1, "Low activity",
                  Detail("Fewer than 5 total transfers."), "medium", 10)
        b3 == addFindingIf(Len(outs) = 0, b2, "Inbound only",
                  Detail("No outbound history."), "low", 6)
        b4 == addFindingIf(Cardinality(uniqueRecipients) >= 10, b3, "Fan-out",
                  DetailN(" distinct recent recipients.", Cardinality(uniqueRecipients)),
                  "high", 18)
        b5 == addFindingIf(Len(ins) >= 5 /\ Cardinality(uniqueSenders) >= 5
                           /\ Len(outs) = 0, b4, "Inbound burst",
                  Detail("Many unique inbound senders, no outbound history."),
                  "medium", 10)
        b6 == addFindingIf(/\ Len(incomingValues) >= 3
                           /\ TwiceMedian(incomingValues) > 0
                           /\ TwiceMedian(incomingValues) < 2 * DUST_THRESHOLD_ETH(env),
                  b5, "Dusting",
                  DetailN("Median inbound < ETH.", DUST_THRESHOLD_ETH(env)),
                  "medium", 12)
        b7 == addFindingIf(DaysGt(daysSinceLatest, 180), b6, "Dormant",
                  Detail("Last activity > 180 days ago. Slightly safer."), "low", -5)
    IN  IF Len(all) = 0
        THEN addFinding(acc, "No history",
                 Detail("No transactions found on Sepolia."), "medium", 22)
        ELSE b7

\* Lines 163-166: the ?ens= parameter against BAD_ENS_NAMES.
WorkerEns(acc, ens, env) ==
    addFindingIf(Len(ens) > 0 /\ toLowerCase(ens) \in csvLowerList(env.badEnsNames),
        acc, "ENS flagged", DetailS(" has negative reputation.", ens), "high", 20)

Max2(a, b) == IF a >= b THEN a ELSE b

Min2(a, b) == IF a <= b THEN a ELSE b

\* The clamp without its Math.min(100, ...)
ClampNoCeiling(score) == Max2(0, score)

\* Math.max(0, Math.min(100, score))
Clamp(score) == Max2(0, Min2(100, score))

\* Lines 100-170: from the two transfer results to the response body.
WorkerAssess(acc, outRes, inRes, addr, ens, env, now) ==
    LET outs == Transfers(outRes, addr, "out")
        ins == Transfers(inRes, addr, "in")
        a == WorkerEns(WorkerActivity(acc, outs, ins, now, env), ens, env)
    IN  [score |-> Clamp(a.score), findings |-> a.findings]

(* ------------------------ part_000: runRiskEval ------------------------- *)

\* parseCsvList(str): the lower-cased, trimmed parts that are addresses
parseCsvList(str) ==
    IF Len(str) = 0 THEN {}
    ELSE LET parts == splitComma(str)
         IN  {a \in {toLowerCase(trim(parts[i])) : i \in 1..Len(parts)} :
                 IsLowerAddress(a)}

\* Lines 172-178: the base score and the weight of each factor's severity.
SeverityWeight(severity) ==
    CASE severity = "high" -> 25
      [] severity = "medium" -> 12
      [] severity = "low" -> 6
      [] OTHER -> 0

RECURSIVE SumWeights(_)
SumWeights(factors) ==
    IF Len(factors) = 0 THEN 0
    ELSE SeverityWeight(factors[1].severity) + SumWeights(Tail(factors))

\* Line 173: let score = 10; // base
BASE_SCORE == 10

\* Line 179: if (BADLIST.has(address.toLowerCase())) score = Math.max(score, 95)
BlocklistFloor(listed, score) == IF listed THEN Max2(score, 95) ELSE score

\* The decision with > in place of >=
DecisionOffByOne(score) == IF score > 60 THEN "block" ELSE "allow"

\* Line 182: score >= 60 ? 'block' : 'allow'
Decision(score) == IF score >= 60 THEN "block" ELSE "allow"

\* Lines 113-170: the factors, in the order they are pushed.
RiskFactors(address, env, code, nonce, outTxs, inTxs, now) ==
    LET BADLIST == parseCsvList(env.badlist)
        DUST_WATCH == parseCsvList(env.dustWatchlist)
        out == MapNormalize(Transfers(outTxs, address, "out"))
        inn == MapNormalize(Transfers(inTxs, address, "in"))
        isContract == Len(code) > 0 /\ code # <<"0", "x">>
        txCount == hexToInt(nonce)
        burst24 == countWithin(out, (24 * 60 * 60 * 1000) \div MsPerTick, now)
        tiny == {i \in 1..Len(inn) :
                    /\ (IF inn[i].valueEth.null THEN 0 ELSE inn[i].valueEth.units) > 0
                    /\ inn[i].valueEth.units < (5 * UnitsPerEth) \div 10000}
        repeatOut == repeatedAmounts(out)
        quickOut == freshInThenOut(inn, out, (10 * 60 * 1000) \div MsPerTick)
        touchedWatch == \/ \E i \in 1..Len(inn) : toLowerCase(inn[i].from) \in DUST_WATCH
                        \/ \E i \in 1..Len(out) : toLowerCase(out[i].to) \in DUST_WATCH
        f1 == pushIf(toLowerCase(address) \in BADLIST, <<>>,
                  factor("high", "On blocklist",
                         Detail("Recipient is present in a locally configured blocklist.")))
        f2 == pushIf(isContract, f1,
                  factor("medium", "Contract address",
                         Detail("Recipient is a contract (non-EOA).")))
        f3 == IF txCount = 0
              THEN Append(f2, factor("medium", "New address",
                         Detail("Recipient has no prior transactions (nonce 0).")))
              ELSE IF txCount < 3
              THEN Append(f2, factor("low", "Very low activity",
                         Detail("Recipient has very limited on-chain activity.")))
              ELSE f2
        f4 == IF burst24 >= 10
              THEN Append(f3, factor("high", "High-frequency outbounds",
                         DetailN(" outgoing transfers in last 24h.", burst24)))
              ELSE IF burst24 >= 5
              THEN Append(f3, factor("medium", "Frequent outbounds",
                         DetailN(" outgoing transfers in last 24h.", burst24)))
              ELSE f3
        f5 == IF Cardinality(tiny) >= 6
              THEN Append(f4, factor("medium", "Dusting pattern",
                         DetailN(" tiny inbound transfers observed.", Cardinality(tiny))))
              ELSE IF Cardinality(tiny) >= 3
              THEN Append(f4, factor("low", "Possible dusting",
                         DetailN(" tiny inbound transfers observed.", Cardinality(tiny))))
              ELSE f4
        f6 == pushIf(repeatOut.maxRepeats >= 8, f5,
                  factor("medium", "Repeated equal amounts",
                         DetailN("Outbound transfers show repeated amount ETH.",
                                 repeatOut.amountStr)))
        f7 == pushIf(quickOut, f6,
                  factor("high", "Fresh funds -> fast outflow",
                         Detail("Outbound occurred shortly after inbound (<=10m).")))
        f8 == pushIf(touchedWatch, f7,
                  factor("low", "Dust watchlist touch",
                         Detail("History includes interaction with a watched address.")))
    IN  f8

\* Lines 113-184 of runRiskEval: what it returns once the four lookups are in.
\* The score is an integer, so Math.round leaves it as it is.
RiskAssess(address, env, code, nonce, outTxs, inTxs, now) ==
    LET factors == RiskFactors(address, env, code, nonce, outTxs, inTxs, now)
        listed == toLowerCase(address) \in parseCsvList(env.badlist)
        score == Clamp(BlocklistFloor(listed, BASE_SCORE + SumWeights(factors)))
    IN  [score |-> score, decision |-> Decision(score), factors |-> factors]

(* ------------------------------ JSON-RPC -------------------------------- *)

Lookups == {"code", "nonce", "out", "in"}

MethodOf(k) ==
    CASE k = "code" -> "eth_getCode"
      [] k = "nonce" -> "eth_getTransactionCount"
      [] OTHER -> "alchemy_getAssetTransfers"

\* part_000 line 61: Math.floor(Math.random() * 1e9)
RPC_ID_RANGE == 1000000000

\* What the provider answers to a call: an HTTP failure, a JSON-RPC error
\* envelope or a result.  The envelope echoes the id of the request.
HttpFailure == [kind |-> "http", status |-> 503]

RpcFailure == [kind |-> "error", code |-> -32000]

Result(v) == [kind |-> "result", result |-> v]

NoAnswer == [kind |-> "none"]

Envelope(id, answer) == [id |-> id, answer |-> answer]

\* rpc that takes a response for its own only when it echoes the id 1
rpcChecksId(method, resp) ==
    IF resp.answer.kind = "result" /\ resp.id = 1
    THEN [ok |-> TRUE, value |-> resp.answer.result]
    ELSE [ok |-> FALSE, message |-> [text |-> "rpc_http_", n |-> 0, method |-> ""]]

\* part_000 rpc(url, method, params), from the response on: the result, or
\* the message of the Error thrown.
rpc(method, resp) ==
    CASE resp.answer.kind = "http" ->
             [ok |-> FALSE,
              message |-> [text |-> "rpc_http_", n |-> resp.answer.status, method |-> ""]]
      [] resp.answer.kind = "error" ->
             [ok |-> FALSE,
              message |-> [text |-> "rpc__error_", n |-> resp.answer.code, method |-> method]]
      [] OTHER -> [ok |-> TRUE, value |-> resp.answer.result]

\* Worker.js rpc(method, params), lines 32-47: the same with its own messages.
workerRpc(method, resp) ==
    CASE resp.answer.kind = "http" ->
             [ok |-> FALSE,
              message |-> [text |-> "rpc_http_", n |-> resp.answer.status, method |-> ""]]
      [] resp.answer.kind = "error" ->
             [ok |-> FALSE, message |-> [text |-> "rpc_error", n |-> 0, method |-> ""]]
      [] OTHER -> [ok |-> TRUE, value |-> resp.answer.result]

\* { transfers: [] }
EmptyTransfers == [n |-> 0, ts |-> [kind |-> "absent"], value |-> [kind |-> "null"], peers |-> 1]

\* The transfer lookup without its .catch
catchTransfersRethrow(outcome) == outcome

\* .catch(() => ({ transfers: [] })) and outRes?.transfers || []
catchTransfers(outcome) ==
    IF outcome.ok THEN outcome ELSE [ok |-> TRUE, value |-> EmptyTransfers]

\* Every member of Promise.all with a .catch of its own, the bytecode and
\* the transaction count falling back to "0x0"
lookupOutcomeAllCaught(k, raw) ==
    IF raw.ok THEN raw
    ELSE [ok |-> TRUE,
          value |-> IF k \in {"out", "in"} THEN EmptyTransfers ELSE <<"0", "x", "0">>]

\* part_000 lines 86-111, the members of Promise.all: rpc(...) for the
\* bytecode and the transaction count, rpc(...).catch(...) for the transfers.
lookupOutcome(k, raw) == IF k \in {"out", "in"} THEN catchTransfers(raw) ELSE raw

(* ------------------------------ responses ------------------------------- *)

\* json(obj, status)
json(obj, status) == [status |-> status, body |-> obj]

\* part_000 jsonError(status, code, detail); JSON.stringify drops a detail
\* that is undefined.
jsonError(status, code) == json([error |-> code, status |-> status], status)

jsonErrorDetail(status, code, detail) ==
    json([error |-> code, status |-> status, detail |-> detail], status)

NoResponse == [status |-> 0]

IsAssessment(resp) == resp.status = 200 /\ "score" \in DOMAIN resp.body

(* --------------------------- the inputs drawn --------------------------- *)

Str_sepolia == <<"s","e","p","o","l","i","a">>

\* The listed address as a request gives it: mixed case, blanks around it.
AddrListedRaw == <<" ", "0", "x">> \o Rep("A", 20) \o Rep("a", 20) \o <<" ">>

\* A request to /check for a, as the wallet sends it but for the chain.
CheckRequest(a, chain, ens) ==
    [method |-> "GET", path |-> "/check", address |-> a, chain |-> chain, ens |-> ens]

Str_Sepolia == <<"S","e","p","o","l","i","a">>

Str_mainnet == <<"m","a","i","n","n","e","t">>

Str_scam_eth == <<"s","c","a","m",".","e","t","h">>

Str_Scam_ETH == <<"S","c","a","m",".","E","T","H">>

\* Requests that pass validation: the listed address with no chain given,
\* the clean address with the chain in mixed case, and (Worker.js reads
\* ?ens=) the clean address with a flagged ENS name.
ValidRequests(v) ==
    { CheckRequest(AddrListedRaw, <<>>, <<>>),
      CheckRequest(Addr("b"), Str_Sepolia, <<>>) }
    \cup (IF v = "worker" THEN {CheckRequest(Addr("b"), <<>>, Str_Scam_ETH)} ELSE {})

\* Requests that do not: an address that is not hex, too short, without
\* prefix or absent; another chain; another path; a preflight.
OtherRequests ==
    { CheckRequest(a, <<>>, <<>>) :
        a \in { Addr("Z"), <<"0", "x">> \o Rep("a", ADDR_HEX_LEN - 1),
                Rep("a", ADDR_HEX_LEN + 2), <<>> } }
    \cup { CheckRequest(Addr("b"), Str_mainnet, <<>>),
           CheckRequest(Addr("Z"), Str_mainnet, <<>>) }
    \cup { [CheckRequest(a, <<>>, <<>>) EXCEPT !.path = p] :
             a \in {Addr("b"), Addr("Z")}, p \in {"/health", "/other"} }
    \cup { [CheckRequest(a, <<>>, <<>>) EXCEPT !.method = "OPTIONS"] :
             a \in {Addr("b"), Addr("Z")} }

Variants == {"worker", "riskEval"}

Requests(v) == ValidRequests(v) \cup OtherRequests

\* Environments (the variable names of Worker.js / part_000):
\*   rpcUrl         ALCHEMY_SEPOLIA_RPC / ALCHEMY_SEPOLIA_URL
\*   badlist        BADLIST_ADDRESSES   / BADLIST
\*   badEnsNames    BAD_ENS_NAMES
\*   badEnsAddrs    BAD_ENS_ADDRS
\*   dustThreshold  DUST_THRESHOLD_ETH
\*   dustWatchlist                        DUST_WATCHLIST
EnvUnset ==
    [rpcUrl |-> FALSE, badlist |-> <<>>, badEnsNames |-> <<>>,
     badEnsAddrs |-> [valid |-> TRUE, map |-> {}],
     dustThreshold |-> [set |-> FALSE, units |-> 0], dustWatchlist |-> <<>>]

EnvPlain ==
    [rpcUrl |-> TRUE, badlist |-> <<>>, badEnsNames |-> <<>>,
     badEnsAddrs |-> [valid |-> FALSE, map |-> {}],
     dustThreshold |-> [set |-> FALSE, units |-> 0], dustWatchlist |-> <<>>]

EnvLists ==
    [rpcUrl |-> TRUE,
     badlist |-> <<" ">> \o Addr("A") \o <<" ", ",", "0", "x", "d", "e", "a", "d">>,
     badEnsNames |-> <<"b","a","d",".","e","t","h",","," ">> \o Str_scam_eth,
     badEnsAddrs |-> [valid |-> TRUE, map |-> {<<Addr("b"), Str_scam_eth>>}],
     dustThreshold |-> [set |-> FALSE, units |-> 0],
     dustWatchlist |-> Addr("C")]

EnvSamples == {EnvUnset, EnvPlain, EnvLists}

\* Date.now() at the evaluations, in ticks: an instant and two days later.
NowSamples == {29 * 1000 * 1000, 29 * 1000 * 1000 + 2 * DAY_MS}

Now0 == CHOOSE t \in NowSamples : \A u \in NowSamples : t <= u

\* blockTimestamp of the transfers: none, not a date, and dates 5 minutes,
\* 6 days, 29 days and 179 days before Now0
Iso(ms) == [kind |-> "iso", ms |-> ms]

Absent == [kind |-> "absent"]

Garbage == [kind |-> "garbage"]

\* A transfer list of n transfers with blockTimestamp ts: a single one
\* worth 1 ETH, or n of 0.00001 ETH each, every one with a counterparty of
\* its own; a transfer without a timestamp has no value either.
TransferList(n, ts) ==
    [n |-> n, ts |-> ts,
     value |-> IF ts.kind = "absent" THEN [kind |-> "null"]
               ELSE [kind |-> "num",
                     units |-> IF n = 1 THEN UnitsPerEth ELSE UnitsPerEth \div 100000],
     peers |-> n]

\* What Worker.js tells apart in a transfer list is the age of its first
\* and last transfer and its size; runRiskEval, what lies in the last 24
\* hours and the order of the inbound and outbound timestamps.
InLists(v) ==
    { EmptyTransfers,
      TransferList(1, Absent),
      TransferList(1, Iso(Now0 - 5)),
      TransferList(MaxTransfers, Iso(Now0 - 5)),
      TransferList(MaxTransfers, Iso(Now0 - 179 * DAY_MS)) }
    \cup (IF v = "worker"
          THEN { TransferList(1, Garbage),
                 TransferList(1, Iso(Now0 - 6 * DAY_MS)),
                 TransferList(1, Iso(Now0 - 29 * DAY_MS)) }
          ELSE {})

\* The last outbound list is the one before it with value: null in every
\* transfer (no amount repeats).
OutLists ==
    { EmptyTransfers,
      TransferList(1, Absent),
      TransferList(MidTransfers, Iso(Now0 - 179 * DAY_MS)),
      TransferList(MaxTransfers, Iso(Now0 - 5)),
      [TransferList(MaxTransfers, Iso(Now0 - 5)) EXCEPT !.value = [kind |-> "null"]] }

\* Bytecode: an account without code, an EIP-1167 minimal proxy (45 bytes),
\* a contract of 100 bytes.
ProxyCode ==
    <<"0","x","3","6","3","D","3","d","3","7","3","d","3","d","3","d","3","6","3","d","7","3">>
      \o Rep("b", ADDR_HEX_LEN)
      \o <<"5","a","f","4","3","d","8","2","8","0","3","e","9","0","3","d","9","1",
           "6","0","2","b","5","7","f","d","5","b","f","3">>

BytecodeSamples == { <<"0", "x">>, ProxyCode, <<"0", "x">> \o Rep("6", 200) }

NonceSamples == { <<"0","x","0">>, <<"0","x","2">>, <<"0","x","1","a">> }

\* What the provider may answer to lookup k of variant v: a failure or a
\* result.
Answers(v, k) ==
    CASE k = "code" -> {HttpFailure} \cup {Result(c) : c \in BytecodeSamples}
      [] k = "nonce" -> {RpcFailure} \cup {Result(c) : c \in NonceSamples}
      [] k = "out" -> {HttpFailure} \cup {Result(c) : c \in OutLists}
      [] OTHER -> {RpcFailure} \cup {Result(c) : c \in InLists(v)}

\* The ids drawn for the four calls of one evaluation.
IdDraws ==
    { [k \in Lookups |-> 1],
      [k \in Lookups |-> CASE k = "code" -> 0
                            [] k = "nonce" -> RPC_ID_RANGE - 1
                            [] k = "out" -> 1
                            [] OTHER -> RPC_ID_RANGE \div 2] }

(* ------------------------------- state ---------------------------------- *)

VARIABLES
    variant,    \* which worker is deployed behind /check
    req,        \* the request being handled
    env,        \* the environment of the deployment
    pc,         \* where the handler is: idle, awaitCode, awaitTransfers, awaitAll, done
    calls,      \* per lookup: none / pending / settled, the id sent, times issued
    upstream,   \* per lookup: what the provider answered
    results,    \* per lookup: what the handler holds for it
    acc,        \* Worker.js: score and findings so far
    now,        \* Date.now() as last read
    response,   \* the response of the handler
    run,        \* which evaluation of the request this is
    prev,       \* the previous evaluation of the same request
    wallet      \* the wallet's send panel and risk modal

vars == <<variant, req, env, pc, calls, upstream, results, acc, now, response,
          run, prev, wallet>>

NoCall == [state |-> "none", id |-> 0, issued |-> 0]

Unset == [set |-> FALSE]

NoPrev == [exists |-> FALSE]

WalletInit ==
    [sendOut |-> "", modalActive |-> FALSE, proceedDisabled |-> FALSE,
     warning |-> FALSE, agreeChecked |-> FALSE, score |-> 0]

Init ==
    /\ variant \in Variants
    /\ env \in EnvSamples
    /\ req = [method |-> "GET", path |-> "", address |-> <<>>, chain |-> <<>>,
              ens |-> <<>>]
    /\ pc = "idle"
    /\ calls = [k \in Lookups |-> NoCall]
    /\ upstream = [k \in Lookups |-> NoAnswer]
    /\ results = [k \in Lookups |-> Unset]
    /\ acc = [findings |-> <<>>, score |-> 0]
    /\ now = Now0
    /\ response = NoResponse
    /\ run = 0
    /\ prev = NoPrev
    /\ wallet = WalletInit

\* rpc(...) wrapped in one retry: the request leaves twice.
IssueRetried(cs, k, id) ==
    [cs EXCEPT ![k] = [state |-> "pending", id |-> id, issued |-> cs[k].issued + 2]]

\* rpc(...) called: the request leaves with its id.
Issue(cs, k, id) ==
    [cs EXCEPT ![k] = [state |-> "pending", id |-> id, issued |-> cs[k].issued + 1]]

Settled(cs, k) == [cs EXCEPT ![k] = [state |-> "settled", id |-> 0, issued |-> cs[k].issued]]

\* (url.searchParams.get("chain") || "sepolia").toLowerCase()
ChainOf(r) == toLowerCase(IF Len(r.chain) > 0 THEN r.chain ELSE Str_sepolia)

\* (url.searchParams.get("address") || "").trim()
AddressOf(r) == trim(r.address)

(* --------------------- Worker.js fetch, up to line 71 ------------------- *)

\* The response when the handler answers without any lookup, or "none".
WorkerEarly(r, e) ==
    IF r.path # "/check" THEN json([error |-> "not_found"], 404)
    ELSE IF ~IsAddress(AddressOf(r)) THEN json([error |-> "bad_address"], 400)
    ELSE IF ChainOf(r) # Str_sepolia THEN json([error |-> "unsupported_chain"], 400)
    ELSE IF ~e.rpcUrl THEN json([error |-> "missing_ALCHEMY_SEPOLIA_RPC"], 500)
    ELSE NoResponse

\* Handle request r: answer at once, or add the blocklist findings and
\* call eth_getCode (id 1).
WorkerHandle(r) ==
    /\ calls' = IF WorkerEarly(r, env).status = 0
                THEN Issue([k \in Lookups |-> NoCall], "code", 1)
                ELSE [k \in Lookups |-> NoCall]
    /\ results' = [k \in Lookups |-> Unset]
    /\ acc' = IF WorkerEarly(r, env).status = 0
              THEN WorkerBlocklists(AddressOf(r), env)
              ELSE [findings |-> <<>>, score |-> 0]
    /\ response' = WorkerEarly(r, env)
    /\ pc' = IF WorkerEarly(r, env).status = 0 THEN "awaitCode" ELSE "done"

(* -------------------- part_000 fetch, up to line 111 -------------------- *)

RiskEarly(r, e) ==
    IF r.method = "OPTIONS" THEN [status |-> 204, body |-> [empty |-> TRUE]]
    ELSE IF r.path = "/health" THEN json([ok |-> TRUE], 200)
    ELSE IF r.path # "/check" THEN jsonError(404, "not_found")
    ELSE IF ~IsAddress(AddressOf(r)) THEN jsonError(400, "invalid_address")
    ELSE IF ChainOf(r) # Str_sepolia THEN jsonError(400, "unsupported_chain")
    ELSE IF ~e.rpcUrl
    THEN jsonErrorDetail(500, "server_error",
             [text |-> "missing_ALCHEMY_SEPOLIA_URL", n |-> 0, method |-> ""])
    ELSE NoResponse

\* Handle request r: answer at once, or call the four lookups, each with a
\* random id, before waiting for any of them.
RiskHandle(r, ids) ==
    /\ calls' = IF RiskEarly(r, env).status = 0
                THEN [k \in Lookups |-> Issue([j \in Lookups |-> NoCall], k, ids[k])[k]]
                ELSE [k \in Lookups |-> NoCall]
    /\ results' = [k \in Lookups |-> Unset]
    /\ acc' = [findings |-> <<>>, score |-> 0]
    /\ response' = RiskEarly(r, env)
    /\ pc' = IF RiskEarly(r, env).status = 0 THEN "awaitAll" ELSE "done"

\* A request arrives (the first evaluation).
Fetch ==
    /\ pc = "idle"
    /\ \E r \in Requests(variant) :
         /\ req' = r
         /\ \/ /\ variant = "worker"
               /\ WorkerHandle(r)
            \/ /\ variant = "riskEval"
               /\ \E ids \in IdDraws :
                    /\ RiskEarly(r, env).status = 0 \/ \A k \in Lookups : ids[k] = 1
                    /\ RiskHandle(r, ids)
    /\ run' = 1
    /\ UNCHANGED <<variant, env, upstream, now, prev, wallet>>

(* --------------------------- lookups settling --------------------------- *)

\* The provider's answer to lookup k: in a repeated evaluation it answers
\* what it answered before.
AnswersFor(k) ==
    IF upstream[k].kind # "none" THEN {upstream[k]} ELSE Answers(variant, k)

\* Date.now() when the handler computes its answer: Now0 in the first
\* evaluation, and in a repeated one any sampled instant that is not before
\* the last reading.
ClockReads == IF run <= 1 THEN {Now0} ELSE {t \in NowSamples : t >= now}

\* Worker.js lines 70-99: eth_getCode settles; its finding is added and the
\* two transfer lookups are called (id 1 each).
SettleWorkerCode ==
    /\ pc = "awaitCode"
    /\ calls["code"].state = "pending"
    /\ \E ans \in AnswersFor("code") :
         LET outcome == workerRpc(MethodOf("code"), Envelope(calls["code"].id, ans))
         IN  /\ upstream' = [upstream EXCEPT !["code"] = ans]
             /\ acc' = WorkerBytecode(acc, outcome)
             /\ results' = [results EXCEPT !["code"] =
                               IF outcome.ok THEN [set |-> TRUE, value |-> outcome.value]
                               ELSE [set |-> TRUE, value |-> <<"0", "x">>]]
    /\ calls' = Issue(Issue(Settled(calls, "code"), "out", 1), "in", 1)
    /\ pc' = "awaitTransfers"
    /\ UNCHANGED <<variant, req, env, now, response, run, prev, wallet>>

\* Worker.js lines 96-170: a transfer lookup settles; when both have, the
\* rest of the handler runs and answers.
SettleWorkerTransfers ==
    /\ pc = "awaitTransfers"
    /\ \E k \in {"out", "in"} : \E ans \in AnswersFor(k), t \in ClockReads :
         LET outcome == catchTransfers(
                            workerRpc(MethodOf(k), Envelope(calls[k].id, ans)))
             other == IF k = "out" THEN "in" ELSE "out"
             res == [results EXCEPT ![k] = [set |-> TRUE, value |-> outcome.value]]
         IN  /\ calls[k].state = "pending"
             /\ upstream' = [upstream EXCEPT ![k] = ans]
             /\ calls' = Settled(calls, k)
             /\ IF ~outcome.ok
                THEN /\ results' = results
                     /\ response' = json([error |-> "worker_error",
                                          message |-> outcome.message], 500)
                     /\ pc' = "done"
                     /\ now' = now
                     /\ t = now
                ELSE IF calls[other].state = "settled"
                THEN /\ results' = res
                     /\ response' = json(WorkerAssess(acc, res["out"].value,
                                             res["in"].value, AddressOf(req),
                                             req.ens, env, t), 200)
                     /\ pc' = "done"
                     /\ now' = t
                ELSE /\ results' = res
                     /\ response' = response
                     /\ pc' = pc
                     /\ now' = now
                     /\ t = now
    /\ UNCHANGED <<variant, req, env, acc, run, prev, wallet>>

\* part_000 lines 86-184 and 22-28: one of the four lookups settles.  A
\* failed bytecode or transaction-count lookup rejects Promise.all at once
\* and the handler answers 500; when all four are in, runRiskEval goes on
\* and the handler answers 200.
SettleRiskEval ==
    /\ pc = "awaitAll"
    /\ \E k \in Lookups : \E ans \in AnswersFor(k), t \in ClockReads :
         LET raw == rpc(MethodOf(k), Envelope(calls[k].id, ans))
             outcome == lookupOutcome(k, raw)
             res == [results EXCEPT ![k] = [set |-> TRUE, value |-> outcome.value]]
             allIn == \A j \in Lookups \ {k} : calls[j].state = "settled"
         IN  /\ calls[k].state = "pending"
             /\ upstream' = [upstream EXCEPT ![k] = ans]
             /\ calls' = Settled(calls, k)
             /\ IF ~outcome.ok
                THEN /\ results' = results
                     /\ response' = jsonErrorDetail(500, "server_error", outcome.message)
                     /\ pc' = "done"
                     /\ now' = now
                     /\ t = now
                ELSE IF allIn
                THEN /\ results' = res
                     /\ response' = json(RiskAssess(AddressOf(req), env,
                                             res["code"].value, res["nonce"].value,
                                             res["out"].value, res["in"].value, t), 200)
                     /\ pc' = "done"
                     /\ now' = t
                ELSE /\ results' = res
                     /\ response' = response
                     /\ pc' = pc
                     /\ now' = now
                     /\ t = now
    /\ UNCHANGED <<variant, req, env, acc, run, prev, wallet>>

\* A lookup settles after the handler has answered: nothing waits for it.
SettleLate ==
    /\ pc = "done"
    /\ \E k \in Lookups : \E ans \in AnswersFor(k) :
         /\ calls[k].state = "pending"
         /\ upstream' = [upstream EXCEPT ![k] = ans]
         /\ calls' = Settled(calls, k)
    /\ UNCHANGED <<variant, req, env, pc, results, acc, now, response, run, prev, wallet>>

(* ------------------------- repeated evaluation -------------------------- *)

\* The same request is sent again to the same deployment, once the lookups
\* of the evaluation before have all settled and before the wallet shows
\* anything: a new handler runs from the start.
Recheck ==
    /\ pc = "done"
    /\ run < MaxRuns
    /\ wallet = WalletInit
    /\ \A k \in Lookups : calls[k].state # "pending"
    /\ prev' = [exists |-> TRUE, now |-> now, response |-> response]
    /\ \/ /\ variant = "worker"
          /\ WorkerHandle(req)
       \/ /\ variant = "riskEval"
          /\ \E ids \in IdDraws :
               /\ RiskEarly(req, env).status = 0 \/ \A k \in Lookups : ids[k] = 1
               /\ RiskHandle(req, ids)
    /\ run' = run + 1
    /\ UNCHANGED <<variant, req, env, upstream, now, wallet>>

(* ------------------------------ the wallet ------------------------------ *)

\* fetchSafeSend: the body of an ok response, else the fallback result
fetchSafeSend(resp) ==
    IF resp.status >= 200 /\ resp.status <= 299 /\ resp.status # 204
    THEN resp.body
    ELSE [score |-> 40,
          findings |-> <<[label |-> "Service", detail |-> Detail("SafeSend unavailable"),
                          level |-> "medium"]>>]

\* result.score >= 60
Risky(score) == score >= 60

\* sendEthFlow from the response on (taken once the lookups have all
\* settled), and showRiskModal: a result without
\* findings makes result.findings.map throw before the modal is set up; a
\* result without a score compares as undefined >= 60, which is false.
ShowRiskModal ==
    /\ pc = "done"
    /\ req.method = "GET"
    /\ req.path = "/check"
    /\ wallet = WalletInit
    /\ \A k \in Lookups : calls[k].state # "pending"
    /\ LET check == fetchSafeSend(response)
           hasScore == "score" \in DOMAIN check
           score == IF hasScore THEN check.score ELSE 0
       IN  wallet' =
             IF "findings" \in DOMAIN check
             THEN [sendOut |-> "SafeSend score", modalActive |-> TRUE,
                   proceedDisabled |-> hasScore /\ Risky(score),
                   warning |-> hasScore /\ Risky(score),
                   agreeChecked |-> wallet.agreeChecked, score |-> score]
             ELSE [wallet EXCEPT !.sendOut = "SafeSend score", !.score = score]
    /\ UNCHANGED <<variant, req, env, pc, calls, upstream, results, acc, now,
                   response, run, prev>>

\* The change listener of the agree checkbox.
AgreeChange ==
    /\ wallet.modalActive
    /\ wallet' = [wallet EXCEPT
                    !.agreeChecked = ~wallet.agreeChecked,
                    !.proceedDisabled = Risky(wallet.score) /\ wallet.agreeChecked]
    /\ UNCHANGED <<variant, req, env, pc, calls, upstream, results, acc, now,
                   response, run, prev>>

(* --------------------------- the specification -------------------------- *)

Next ==
    \/ Fetch
    \/ SettleWorkerCode
    \/ SettleWorkerTransfers
    \/ SettleRiskEval
    \/ SettleLate
    \/ Recheck
    \/ ShowRiskModal
    \/ AgreeChange

Spec == Init /\ [][Next]_vars

(* ------------------------- what the claims speak of --------------------- *)

\* The findings of an assessment, whichever name the variant gives them.
FindingsOf(body) == IF "findings" \in DOMAIN body THEN body.findings ELSE body.factors

\* The checked address is on the blocklist the deployment is configured with.
Listed ==
    toLowerCase(AddressOf(req)) \in
        (IF variant = "worker" THEN csvLowerList(env.badlist)
                               ELSE parseCsvList(env.badlist))

\* Lookup k of the current evaluation has settled with a failure / a result.
Failed(k) == calls[k].state = "settled" /\ upstream[k].kind \in {"http", "error"}

Succeeded(k) == calls[k].state = "settled" /\ upstream[k].kind = "result"

\* ^0x[0-9a-fA-F]{40}$, spelled out character by character
MatchesAddressPattern(a) ==
    /\ Len(a) = 42
    /\ SubSeq(a, 1, 2) = <<"0", "x">>
    /\ \A i \in 3..42 :
          a[i] \in {"0","1","2","3","4","5","6","7","8","9",
                    "a","b","c","d","e","f","A","B","C","D","E","F"}

(* ---------------------------------- C1 ---------------------------------- *)

\* C1: the score of every 200 assessment, of either variant, is a number
\* between 0 and 100 inclusive.
C1_ScoreInRange ==
    IsAssessment(response) => response.body.score \in 0..100

\* C1, reached: Worker.js answers a listed address that is new and fans
\* out; the weights 90 + 28 + 18 pass 100 and the score is 100.
C1_Witness ==
    /\ variant = "worker"
    /\ IsAssessment(response)
    /\ {"Blocklisted", "New address", "Fan-out"} \subseteq Labels(response.body.findings)
    /\ response.body.score = 100

\* C1, reached as well: the only weight applied is Dormant's -5 and the
\* score is 0.
C1_WitnessDormantOnly ==
    /\ variant = "worker"
    /\ IsAssessment(response)
    /\ Labels(response.body.findings) = {"EOA", "Dormant"}
    /\ response.body.score = 0

\* C1, reached as well: runRiskEval's severity sum passes 100.
C1_WitnessSeveritySum ==
    /\ variant = "riskEval"
    /\ IsAssessment(response)
    /\ ~Listed
    /\ BASE_SCORE + SumWeights(response.body.factors) > 100
    /\ response.body.score = 100

(* ---------------------------------- C2 ---------------------------------- *)

\* The decision of an assessment: the one it carries, or the one the wallet
\* takes from its score.
DecisionOf(body) ==
    IF "decision" \in DOMAIN body THEN body.decision
    ELSE IF body.score >= 60 THEN "block" ELSE "allow"

\* C2: a listed address that gets an assessment gets a score of at least 95
\* and the decision block.
C2_BlocklistFloor ==
    (IsAssessment(response) /\ Listed)
        => (response.body.score >= 95 /\ DecisionOf(response.body) = "block")

(* ---------------------------------- C3 ---------------------------------- *)

\* The request is a GET of /check whose address is malformed or whose chain
\* is not sepolia.
C3_Invalid ==
    /\ pc # "idle"
    /\ req.method = "GET"
    /\ req.path = "/check"
    /\ \/ ~MatchesAddressPattern(trim(req.address))
       \/ ChainOf(req) # Str_sepolia

\* C3: such a request is answered 400 with invalid_address / bad_address
\* (unsupported_chain when only the chain is wrong), and no lookup is ever
\* issued for it.
C3_RejectedBeforeLookups ==
    C3_Invalid =>
        /\ response.status = 400
        /\ response.body.error =
              (IF MatchesAddressPattern(trim(req.address)) THEN "unsupported_chain"
               ELSE IF variant = "worker" THEN "bad_address" ELSE "invalid_address")
        /\ \A k \in Lookups : calls[k].issued = 0 /\ upstream[k] = NoAnswer

\* C3, reached: 0xZZ...Z was rejected, and so was a well-formed address on
\* another chain in the other reachable states.
C3_Witness ==
    /\ C3_Invalid
    /\ req.address = Addr("Z")
    /\ response.status = 400

(* ---------------------------------- C4 ---------------------------------- *)

\* C4 as stated: once the bytecode lookup or the transaction-count lookup
\* has failed, the answer is a 500 and carries no assessment.
C4_RequiredLookupAborts ==
    (pc = "done" /\ (Failed("code") \/ Failed("nonce")))
        => (response.status = 500 /\ ~IsAssessment(response))

\* C4 as the code has it: runRiskEval answers 500 server_error without an
\* assessment when eth_getCode or eth_getTransactionCount failed, whatever
\* the transfer lookups returned; Worker.js, which never asks for the
\* transaction count, records a failed eth_getCode as the finding
\* "Unknown type" and answers 200 with an assessment.
C4_AbortsInRiskEvalOnly ==
    /\ (variant = "riskEval" /\ pc = "done" /\ (Failed("code") \/ Failed("nonce")))
          => /\ response.status = 500
             /\ response.body.error = "server_error"
             /\ ~IsAssessment(response)
    /\ (variant = "worker" /\ pc = "done" /\ Failed("code"))
          => /\ IsAssessment(response)
             /\ "Unknown type" \in Labels(response.body.findings)
    /\ variant = "worker" => calls["nonce"].issued = 0

\* C4, reached: runRiskEval has answered 500 after the transaction count
\* failed and both transfer lookups had come back with transfers.
C4_Witness ==
    /\ variant = "riskEval"
    /\ pc = "done"
    /\ Failed("nonce")
    /\ Succeeded("code")
    /\ Succeeded("out") /\ upstream["out"].result.n > 0
    /\ Succeeded("in") /\ upstream["in"].result.n > 0
    /\ response.status = 500

\* C4, reached as well: Worker.js has answered 200 after eth_getCode failed.
C4_WitnessWorker ==
    /\ variant = "worker"
    /\ pc = "done"
    /\ Failed("code")
    /\ IsAssessment(response)

(* ---------------------------------- C5 ---------------------------------- *)

\* The lookups the evaluation cannot do without have succeeded.
RequiredSucceeded ==
    /\ Succeeded("code")
    /\ variant = "riskEval" => Succeeded("nonce")

\* C5: when a transfer lookup (or both) failed and the required lookups
\* succeeded, the handler answers 200 with an assessment, computed with the
\* empty list in place of each failed side.
C5_TransferFailureDegrades ==
    (pc = "done" /\ RequiredSucceeded /\ (Failed("out") \/ Failed("in")))
        => /\ IsAssessment(response)
           /\ \A k \in {"out", "in"} :
                 /\ results[k].set
                 /\ results[k].value =
                       (IF Failed(k) THEN EmptyTransfers ELSE upstream[k].result)
           /\ (Failed("out") /\ Failed("in") /\ variant = "worker")
                 => "No history" \in Labels(response.body.findings)

\* C5, reached: the outbound lookup failed, the inbound one returned
\* transfers, and the answer is an assessment.
C5_Witness ==
    /\ pc = "done"
    /\ RequiredSucceeded
    /\ Failed("out")
    /\ Succeeded("in") /\ upstream["in"].result.n > 0
    /\ IsAssessment(response)
    /\ results["out"].value = EmptyTransfers

(* ---------------------------------- C6 ---------------------------------- *)

\* C6: an assessment that carries a decision has block exactly from score
\* 60 on and allow exactly below; while the wallet's modal is shown, the
\* warning is on exactly from score 60 on and the proceed control is
\* disabled exactly when the score is at least 60 and the box is unchecked.
C6_DecisionThreshold ==
    /\ (IsAssessment(response) /\ "decision" \in DOMAIN response.body)
          => /\ response.body.decision = "block" <=> response.body.score >= 60
             /\ response.body.decision = "allow" <=> response.body.score < 60
    /\ wallet.modalActive
          => /\ wallet.score = fetchSafeSend(response).score
             /\ wallet.warning <=> wallet.score >= 60
             /\ wallet.proceedDisabled <=> (wallet.score >= 60 /\ ~wallet.agreeChecked)

\* C6, reached: runRiskEval returns the score 60 (two high factors over the
\* base) with the decision block.
C6_Witness ==
    /\ variant = "riskEval"
    /\ IsAssessment(response)
    /\ response.body.score = 60
    /\ response.body.decision = "block"

\* C6, reached as well: the modal shows a score of 60, the box has been
\* checked and the proceed control is enabled again.
C6_WitnessWallet ==
    /\ wallet.modalActive
    /\ wallet.score = 60
    /\ wallet.agreeChecked
    /\ ~wallet.proceedDisabled

(* ---------------------------------- C7 ---------------------------------- *)

\* The weight of a finding: by severity in runRiskEval, by label in
\* Worker.js.
WeightOf(f) ==
    IF "severity" \in DOMAIN f
    THEN CASE f.severity = "high" -> 25
           [] f.severity = "medium" -> 12
           [] OTHER -> 6
    ELSE CASE f.label = "Blocklisted" -> 90
           [] f.label = "Negative ENS link" -> 25
           [] f.label = "Contract" -> 10
           [] f.label \in {"Proxy pattern", "Tiny bytecode", "Inbound only"} -> 6
           [] f.label \in {"EOA", "Unknown type"} -> 0
           [] f.label = "No history" -> 22
           [] f.label = "New address" -> 28
           [] f.label \in {"Newish address", "Fan-out"} -> 18
           [] f.label = "Recent address" -> 8
           [] f.label \in {"Low activity", "Inbound burst"} -> 10
           [] f.label = "Dusting" -> 12
           [] f.label = "Dormant" -> -5
           [] f.label = "ENS flagged" -> 20

RECURSIVE WeightSum(_)
WeightSum(fs) == IF fs = <<>> THEN 0 ELSE WeightOf(Head(fs)) + WeightSum(Tail(fs))

\* The base score: 10 in runRiskEval, none in Worker.js.
BaseOf(v) == IF v = "riskEval" THEN 10 ELSE 0

\* Base plus weights, raised to 95 for a listed address in runRiskEval, then
\* clamped to 0..100.
ExpectedScore(v, listed, fs) ==
    LET raw == BaseOf(v) + WeightSum(fs)
        floored == IF v = "riskEval" /\ listed /\ raw < 95 THEN 95 ELSE raw
    IN  IF floored < 0 THEN 0 ELSE IF floored > 100 THEN 100 ELSE floored

\* An assessment of an address no list names, with bytecode "0x", no
\* transfers either way and, where the transaction count is looked up,
\* nonce 0.
C7_Scenario ==
    /\ pc = "done"
    /\ IsAssessment(response)
    /\ upstream["code"] = Result(<<"0", "x">>)
    /\ variant = "riskEval" => upstream["nonce"] = Result(<<"0", "x", "0">>)
    /\ results["out"].value.n = 0
    /\ results["in"].value.n = 0
    /\ ~Listed
    /\ EnsLinkOf(env, toLowerCase(AddressOf(req))) = {}
    /\ toLowerCase(req.ens) \notin csvLowerList(env.badEnsNames)

\* C7 as stated: in the scenario the findings include an EOA signal and
\* "No history", the score is 10 + 22 = 32 and the decision is allow.
C7_ScenarioScores32 ==
    C7_Scenario =>
        /\ {"EOA", "No history"} \subseteq Labels(FindingsOf(response.body))
        /\ response.body.score = 32
        /\ DecisionOf(response.body) = "allow"

\* C7 as the code has it: the score is the variant's base (10 in
\* runRiskEval, 0 in Worker.js) plus the weights of the findings returned,
\* raised to 95 for a listed address in runRiskEval, then clamped; in the
\* scenario Worker.js returns EOA and "No history" with the score 22 and no
\* decision, and runRiskEval returns the one factor "New address" with the
\* score 10 + 12 = 22 and the decision allow.
C7_BasePlusWeights ==
    /\ IsAssessment(response)
          => response.body.score =
                ExpectedScore(variant, Listed, FindingsOf(response.body))
    /\ (C7_Scenario /\ variant = "worker")
          => /\ Labels(response.body.findings) = {"EOA", "No history"}
             /\ response.body.score = 22
             /\ "decision" \notin DOMAIN response.body
    /\ (C7_Scenario /\ variant = "riskEval")
          => /\ Labels(response.body.factors) = {"New address"}
             /\ response.body.score = 22
             /\ response.body.decision = "allow"

\* C7, reached: Worker.js has answered the scenario.
C7_Witness ==
    /\ C7_Scenario
    /\ variant = "worker"
    /\ Succeeded("out") /\ Succeeded("in")
    /\ response.body.score = 22

\* C7, reached as well: runRiskEval has answered the scenario.
C7_WitnessRiskEval ==
    /\ C7_Scenario
    /\ variant = "riskEval"
    /\ Succeeded("out") /\ Succeeded("in")
    /\ response.body.score = 22

(* ---------------------------------- C8 ---------------------------------- *)

\* The transfer lists the evaluation fetched (each a list of n transfers
\* with one blockTimestamp) that hold a transfer.
FetchedLists == {results[k].value : k \in {k \in {"out", "in"} : results[k].set}}

NonEmptyLists == {l \in FetchedLists : l.n > 0}

\* The block times, in ticks, of the fetched transfers that carry one.
KnownTimes == {l.ts.ms : l \in {l \in NonEmptyLists : l.ts.kind = "iso"}}

AgeTiers == {"New address", "Newish address", "Recent address"}

\* The tier of the earliest fetched transfer at the instant of evaluation:
\* under 24 hours, under 7 days, under 30 days, or none.
TierOfEarliest ==
    IF KnownTimes = {} THEN {}
    ELSE LET first == CHOOSE t \in KnownTimes : \A u \in KnownTimes : t <= u
             age == now - first
         IN  IF age < DAY_MS THEN {"New address"}
             ELSE IF age < 7 * DAY_MS THEN {"Newish address"}
             ELSE IF age < 30 * DAY_MS THEN {"Recent address"}
             ELSE {}

\* C8: an assessment of Worker.js holds at most one of New address, Newish
\* address and Recent address, and the one it holds is the tier of the
\* earliest fetched transfer; it holds none when that transfer is 30 days
\* old or more.
C8_OneAgeTier ==
    (variant = "worker" /\ pc = "done" /\ IsAssessment(response))
        => /\ Cardinality(Labels(response.body.findings) \cap AgeTiers) <= 1
           /\ Labels(response.body.findings) \cap AgeTiers = TierOfEarliest

\* Reached: every fetched transfer carries a block time and the tier
\* returned is the tier of the earliest one, here Recent address.
C8_ReachedOnDatedTransfers ==
    /\ variant = "worker" /\ pc = "done" /\ IsAssessment(response)
    /\ NonEmptyLists # {}
    /\ \A l \in NonEmptyLists : l.ts.kind = "iso"
    /\ Labels(response.body.findings) \cap AgeTiers = {"Recent address"}
    /\ TierOfEarliest = {"Recent address"}

(* ---------------------------------- C9 ---------------------------------- *)

\* C9 as stated: a repeated evaluation of the same request, under the same
\* configuration and with the same upstream answers, returns the assessment
\* the evaluation before returned.
C9_SameAssessment ==
    (prev.exists /\ pc = "done" /\ IsAssessment(prev.response))
        => response = prev.response

\* C9 as the code has it: the repeated evaluation returns the same
\* assessment when it is evaluated at the same instant of the wall clock;
\* the JSON-RPC ids drawn do not change it.
C9_SameAssessmentAtSameInstant ==
    (prev.exists /\ pc = "done" /\ IsAssessment(prev.response) /\ now = prev.now)
        => response = prev.response

\* C9, reached: runRiskEval has answered a repeated evaluation, at the
\* instant of the one before, with the same assessment.
C9_Witness ==
    /\ variant = "riskEval"
    /\ prev.exists /\ pc = "done" /\ run = MaxRuns
    /\ now = prev.now
    /\ IsAssessment(prev.response)
    /\ Len(prev.response.body.factors) > 0
    /\ response = prev.response

\* C9, reached as well: Worker.js has answered a repeated evaluation two
\* days later with another score.
C9_ReachedLaterInstant ==
    /\ variant = "worker"
    /\ prev.exists /\ pc = "done"
    /\ now > prev.now
    /\ IsAssessment(prev.response) /\ IsAssessment(response)
    /\ response.body.score # prev.response.body.score

(* ---------------------------------- C10 --------------------------------- *)

\* The findings that rest on how recent a transfer is.
RecencyLabels ==
    IF variant = "worker"
    THEN AgeTiers \cup {"Dormant"}
    ELSE {"High-frequency outbounds", "Frequent outbounds", "Fresh funds -> fast outflow"}

\* C10: when none of the fetched transfers carries a usable blockTimestamp,
\* the assessment holds no recency finding.
C10_UnknownRecencyNeverFires ==
    (/\ pc = "done" /\ IsAssessment(response)
     /\ NonEmptyLists # {}
     /\ \A l \in NonEmptyLists : l.ts.kind # "iso")
        => Labels(FindingsOf(response.body)) \cap RecencyLabels = {}

\* Reached: runRiskEval returns "Fresh funds -> fast outflow" for one
\* inbound and one outbound transfer that both lack a blockTimestamp.
C10_ReachedFreshOutflow ==
    /\ variant = "riskEval" /\ pc = "done" /\ IsAssessment(response)
    /\ results["in"].value.n = 1 /\ results["in"].value.ts.kind = "absent"
    /\ results["out"].value.n = 1 /\ results["out"].value.ts.kind = "absent"
    /\ "Fresh funds -> fast outflow" \in Labels(response.body.factors)

\* Reached: Worker.js returns New address for a single transfer whose
\* blockTimestamp is not a date.
C10_ReachedNewAddress ==
    /\ variant = "worker" /\ pc = "done" /\ IsAssessment(response)
    /\ results["in"].value.n = 1 /\ results["in"].value.ts.kind = "garbage"
    /\ results["out"].value.n = 0
    /\ "New address" \in Labels(response.body.findings)

(* ---------------------------------- C11 --------------------------------- *)

Pending(k) == calls[k].state = "pending"

\* The handler has produced its response.
Responded == response.status # 0

\* C11 as stated: once one lookup of an evaluation has been issued all four
\* have been, each exactly once, and the response is there only when none
\* of them is pending any more.
C11_AllIssuedThenAllSettled ==
    /\ (\E k \in Lookups : calls[k].issued > 0)
          => \A k \in Lookups : calls[k].issued = 1
    /\ Responded => \A k \in Lookups : ~Pending(k)

\* C11 as the code has it.  runRiskEval issues the four lookups together,
\* each exactly once, and returns an assessment only when all four have
\* settled; its server error comes as soon as the bytecode or the
\* transaction-count lookup has failed, whatever is still pending.
\* Worker.js issues eth_getCode alone and waits for it, then issues the two
\* transfer lookups together, never the transaction count, none more than
\* once, and responds only when every lookup it issued has settled.
C11_IssuedOnceSettledBeforeAssessment ==
    /\ \A k \in Lookups : calls[k].issued <= 1
    /\ variant = "riskEval"
          => /\ \A j, k \in Lookups : calls[j].issued = calls[k].issued
             /\ IsAssessment(response)
                   => \A k \in Lookups : calls[k].issued = 1 /\ ~Pending(k)
             /\ (Responded /\ \E k \in Lookups : Pending(k))
                   => /\ response.status = 500
                      /\ Failed("code") \/ Failed("nonce")
    /\ variant = "worker"
          => /\ calls["nonce"].issued = 0
             /\ calls["out"].issued = calls["in"].issued
             /\ calls["out"].issued = 1
                   => calls["code"].issued = 1 /\ calls["code"].state = "settled"
             /\ Responded => \A k \in Lookups : ~Pending(k)
             /\ IsAssessment(response)
                   => \A k \in Lookups \ {"nonce"} : calls[k].issued = 1

\* C11, reached: runRiskEval has returned an assessment after its four
\* lookups, one of them failed, have all settled.
C11_Witness ==
    /\ variant = "riskEval"
    /\ pc = "done"
    /\ IsAssessment(response)
    /\ Failed("in")
    /\ \A k \in Lookups : calls[k].issued = 1 /\ calls[k].state = "settled"

\* C11, reached as well: runRiskEval has answered 500 while both transfer
\* lookups are still pending.
C11_ReachedErrorWhilePending ==
    /\ variant = "riskEval"
    /\ response.status = 500
    /\ Pending("out") /\ Pending("in")

\* C11, reached as well: Worker.js waits for eth_getCode, the transfer
\* lookups not yet issued.
C11_ReachedWorkerSequential ==
    /\ variant = "worker"
    /\ Pending("code")
    /\ calls["out"].issued = 0 /\ calls["in"].issued = 0

====
